---------------------------- MODULE Spec2Model ----------------------------
(***************************************************************************)
(* Model of the responsehelper package: the response helpers that write a  *)
(* status code and a gin.H envelope to a gin.Context.                      *)
(*                                                                         *)
(* Three generations of the helper live in the repository:                 *)
(*   Old  src/unnamed/part_000:189-271   no request storage lookup;        *)
(*                                       Success/Created/Deleted stamp a   *)
(*                                       time.Now() meta                   *)
(*   Gin  src/responsehelper.go:211-306  meta read from c.Get("meta")      *)
(*   (no suffix) src/unnamed/part_000:539-674  as Gin, plus AlreadyExists, *)
(*                                       Conflict, Forbidden, NoContent    *)
(*                                                                         *)
(* Go values:                                                              *)
(*   string        a TLA+ string                                           *)
(*   interface{}   a tagged record: Nil, Str(s)                            *)
(*   error         Nil or Err(text)                                        *)
(*   gin.H         a TLA+ record; its DOMAIN is the set of keys of the map *)
(***************************************************************************)
EXTENDS Integers, Sequences, FiniteSets, TLC

VARIABLES
    keys,     \* keys[r]: gin.Context.Keys of request r (a partial map)
    nwrites,  \* nwrites[r]: number of c.JSON writes made on request r
    stdlog,   \* lines written to the process-wide standard logger
    call      \* the last helper call: operation, arguments, outcome

vars == <<keys, nwrites, stdlog, call>>

---------------------------------------------------------------------------
(* Bounds *)

MaxWrites == 2
MaxLog == 1

(* net/http status codes used by the helpers *)

StatusOK == 200
StatusCreated == 201
StatusNoContent == 204
StatusBadRequest == 400
StatusUnauthorized == 401
StatusForbidden == 403
StatusNotFound == 404
StatusConflict == 409
StatusInternalServerError == 500

---------------------------------------------------------------------------
(* Go values *)

Nil == [kind |-> "nil"]
Str(s) == [kind |-> "string", val |-> s]
Err(text) == [kind |-> "error", text |-> text]

Requests == {"r1", "r2"}
KeyNames == {"meta"}
Strings == {"", "User"}
Errors == {Nil, Err("duplicate key")}
Payloads == {Nil, Str("token")}
Stored == {Str("req-1")}
Instants == {0, 7}

\* time.Time.Format(time.RFC3339) of the instants the model draws from
Format(t) == "2025-10-16T00:00:0" \o ToString(t) \o "Z"

---------------------------------------------------------------------------
(* gin.Context as the helpers use it.  A context value c carries the       *)
(* request's Keys, the writes and the log lines the running call has       *)
(* issued, and whether the call has panicked.                              *)

\* variant: the helper keeps the context it was first used with
ContextKept(r) ==
    [Keys |-> keys["r1"], writes |-> <<>>, log |-> <<>>, panicked |-> FALSE]

Context(r) ==
    [Keys |-> keys[r], writes |-> <<>>, log |-> <<>>, panicked |-> FALSE]

\* c.Get(key): (value, exists)
Get(c, key) ==
    IF key \in DOMAIN c.Keys THEN <<c.Keys[key], TRUE>> ELSE <<Nil, FALSE>>

\* c.JSON(code, obj): one status-coded write of obj
JSON(c, code, obj) ==
    [c EXCEPT !.writes = Append(@, [code |-> code, obj |-> obj])]

\* a run-time panic unwinds the call: nothing further is executed
Panic(c) == [c EXCEPT !.panicked = TRUE]

\* log.Printf("Internal error: %v", err); %v of a nil error prints <nil>
Printf(c, err) ==
    [c EXCEPT !.log = Append(@, "Internal error: " \o
                                 (IF err = Nil THEN "<nil>" ELSE err.text))]

---------------------------------------------------------------------------
(* The current helper: src/unnamed/part_000:539-674 *)

\* variant: message and details written to each other's field
BadRequestSwapped(c, message, details) ==
    LET meta == Get(c, "meta")[1]
    IN  JSON(c, StatusBadRequest,
             [success |-> FALSE,
              error |-> [code |-> 400, status |-> "BAD_REQUEST",
                         message |-> details, details |-> message],
              meta |-> meta])

BadRequest(c, message, details) ==
    LET meta == Get(c, "meta")[1]
    IN  JSON(c, StatusBadRequest,
             [success |-> FALSE,
              error |-> [code |-> 400, status |-> "BAD_REQUEST",
                         message |-> message, details |-> details],
              meta |-> meta])

\* variant: a nil error is tolerated and written with empty details
ConflictNilSafe(c, message, err) ==
    LET meta == Get(c, "meta")[1]
    IN  JSON(c, StatusConflict,
             [success |-> FALSE,
              error |-> [code |-> 409, status |-> "CONFLICT",
                         message |-> message,
                         details |-> IF err = Nil THEN "" ELSE err.text],
              meta |-> meta])

Conflict(c, message, err) ==
    LET meta == Get(c, "meta")[1]
    IN  IF err = Nil
        THEN Panic(c)       \* err.Error() on a nil error
        ELSE JSON(c, StatusConflict,
                  [success |-> FALSE,
                   error |-> [code |-> 409, status |-> "CONFLICT",
                              message |-> message, details |-> err.text],
                   meta |-> meta])

\* variant: the resource name is passed on without the suffix
AlreadyExistsBare(c, resource, err) ==
    Conflict(c, resource, err)

\* variant: writes its own envelope and then delegates as well
AlreadyExistsTwice(c, resource, err) ==
    Conflict(Conflict(c, resource \o " already exists", err),
             resource \o " already exists", err)

AlreadyExists(c, resource, err) ==
    Conflict(c, resource \o " already exists", err)

\* variant: a details field copied from the message
NotFoundWithDetails(c, message) ==
    LET meta == Get(c, "meta")[1]
    IN  JSON(c, StatusNotFound,
             [success |-> FALSE,
              error |-> [code |-> 404, status |-> "NOT_FOUND",
                         message |-> message, details |-> message],
              meta |-> meta])

NotFound(c, message) ==
    LET meta == Get(c, "meta")[1]
    IN  JSON(c, StatusNotFound,
             [success |-> FALSE,
              error |-> [code |-> 404, status |-> "NOT_FOUND",
                         message |-> message],
              meta |-> meta])

Unauthorized(c, message) ==
    LET meta == Get(c, "meta")[1]
    IN  JSON(c, StatusUnauthorized,
             [success |-> FALSE,
              error |-> [code |-> 401, status |-> "UNAUTHORIZED",
                         message |-> message],
              meta |-> meta])

\* variant: the error text is replaced by a fixed string
InternalErrorSanitized(c, message, err) ==
    LET meta == Get(c, "meta")[1]
    IN  IF err = Nil
        THEN Panic(c)
        ELSE JSON(c, StatusInternalServerError,
                  [success |-> FALSE,
                   error |-> [code |-> 500, status |-> "INTERNAL_SERVER_ERROR",
                              message |-> message, details |-> "internal error"],
                   data |-> Nil,
                   meta |-> meta])

InternalError(c, message, err) ==
    LET meta == Get(c, "meta")[1]
    IN  IF err = Nil
        THEN Panic(c)       \* err.Error() on a nil error
        ELSE JSON(c, StatusInternalServerError,
                  [success |-> FALSE,
                   error |-> [code |-> 500, status |-> "INTERNAL_SERVER_ERROR",
                              message |-> message, details |-> err.text],
                   data |-> Nil,
                   meta |-> meta])

\* variant: looks the meta up under a misspelt key
SuccessWrongKey(c, data) ==
    LET meta == Get(c, "Meta")[1]
    IN  JSON(c, StatusOK, [success |-> TRUE, data |-> data, meta |-> meta])

Success(c, data) ==
    LET meta == Get(c, "meta")[1]
    IN  JSON(c, StatusOK, [success |-> TRUE, data |-> data, meta |-> meta])

SuccessWithPagination(c, data, paginationMeta) ==
    LET meta == Get(c, "meta")[1]
    IN  JSON(c, StatusOK,
             [success |-> TRUE, data |-> data,
              pagination |-> paginationMeta, meta |-> meta])

\* variant: 200 instead of 201
CreatedAsOK(c, data) ==
    LET meta == Get(c, "meta")[1]
    IN  JSON(c, StatusOK, [success |-> TRUE, data |-> data, meta |-> meta])

Created(c, data) ==
    LET meta == Get(c, "meta")[1]
    IN  JSON(c, StatusCreated, [success |-> TRUE, data |-> data, meta |-> meta])

\* variant: the 204 its interface comment announces
DeletedNoContent(c, message) ==
    LET meta == Get(c, "meta")[1]
    IN  JSON(c, StatusNoContent,
             [success |-> TRUE,
              message |-> message \o " deleted successfully",
              meta |-> meta])

Deleted(c, message) ==
    LET meta == Get(c, "meta")[1]
    IN  JSON(c, StatusOK,
             [success |-> TRUE,
              message |-> message \o " deleted successfully",
              meta |-> meta])

\* variant: success left true in the error envelope
ForbiddenSuccess(c, message) ==
    LET meta == Get(c, "meta")[1]
    IN  JSON(c, StatusForbidden,
             [success |-> TRUE,
              error |-> [code |-> 403, status |-> "FORBIDDEN",
                         message |-> message],
              meta |-> meta])

Forbidden(c, message) ==
    LET meta == Get(c, "meta")[1]
    IN  JSON(c, StatusForbidden,
             [success |-> FALSE,
              error |-> [code |-> 403, status |-> "FORBIDDEN",
                         message |-> message],
              meta |-> meta])

\* variant: the data field left out
NoContentBare(c) ==
    LET meta == Get(c, "meta")[1]
    IN  JSON(c, StatusNoContent, [success |-> TRUE, meta |-> meta])

\* variant: 200 instead of 204
NoContentAsOK(c) ==
    LET meta == Get(c, "meta")[1]
    IN  JSON(c, StatusOK, [success |-> TRUE, data |-> Nil, meta |-> meta])

NoContent(c) ==
    LET meta == Get(c, "meta")[1]
    IN  JSON(c, StatusNoContent, [success |-> TRUE, data |-> Nil, meta |-> meta])

---------------------------------------------------------------------------
(* The deprecated Gin-coupled helper: src/responsehelper.go:211-306 *)

BadRequestGin(c, message, details) ==
    LET meta == Get(c, "meta")[1]
    IN  JSON(c, StatusBadRequest,
             [success |-> FALSE,
              error |-> [code |-> 400, status |-> "BAD_REQUEST",
                         message |-> message, details |-> details],
              meta |-> meta])

NotFoundGin(c, message) ==
    LET meta == Get(c, "meta")[1]
    IN  JSON(c, StatusNotFound,
             [success |-> FALSE,
              error |-> [code |-> 404, status |-> "NOT_FOUND",
                         message |-> message],
              meta |-> meta])

UnauthorizedGin(c, message) ==
    LET meta == Get(c, "meta")[1]
    IN  JSON(c, StatusUnauthorized,
             [success |-> FALSE,
              error |-> [code |-> 401, status |-> "UNAUTHORIZED",
                         message |-> message],
              meta |-> meta])

InternalErrorGin(c, message, err) ==
    LET meta == Get(c, "meta")[1]
    IN  IF err = Nil
        THEN Panic(c)       \* err.Error() on a nil error
        ELSE JSON(c, StatusInternalServerError,
                  [success |-> FALSE,
                   error |-> [code |-> 500, status |-> "INTERNAL_SERVER_ERROR",
                              message |-> message, details |-> err.text],
                   data |-> Nil,
                   meta |-> meta])

SuccessGin(c, data) ==
    LET meta == Get(c, "meta")[1]
    IN  JSON(c, StatusOK, [success |-> TRUE, data |-> data, meta |-> meta])

SuccessWithPaginationGin(c, data, paginationMeta) ==
    LET meta == Get(c, "meta")[1]
    IN  JSON(c, StatusOK,
             [success |-> TRUE, data |-> data,
              pagination |-> paginationMeta, meta |-> meta])

CreatedGin(c, data) ==
    LET meta == Get(c, "meta")[1]
    IN  JSON(c, StatusCreated, [success |-> TRUE, data |-> data, meta |-> meta])

\* variant: the 204 of the interface comment, in this helper only
DeletedGinNoContent(c, message) ==
    LET meta == Get(c, "meta")[1]
    IN  JSON(c, StatusNoContent,
             [success |-> TRUE,
              message |-> message \o " deleted successfully",
              meta |-> meta])

DeletedGin(c, message) ==
    LET meta == Get(c, "meta")[1]
    IN  JSON(c, StatusOK,
             [success |-> TRUE,
              message |-> message \o " deleted successfully",
              meta |-> meta])

---------------------------------------------------------------------------
(* The older helper: src/unnamed/part_000:189-271.  It never reads the     *)
(* request storage; now is the instant time.Now() returns.                 *)

BadRequestOld(c, message, details) ==
    JSON(c, StatusBadRequest,
         [success |-> FALSE,
          error |-> [code |-> 400, status |-> "BAD_REQUEST",
                     message |-> message, details |-> details]])

NotFoundOld(c, message) ==
    JSON(c, StatusNotFound,
         [success |-> FALSE,
          error |-> [code |-> 404, status |-> "NOT_FOUND",
                     message |-> message]])

UnauthorizedOld(c, message) ==
    JSON(c, StatusUnauthorized,
         [success |-> FALSE,
          error |-> [code |-> 401, status |-> "UNAUTHORIZED",
                     message |-> message]])

InternalErrorOld(c, message, err) ==
    LET c1 == Printf(c, err)
    IN  IF err = Nil
        THEN Panic(c1)      \* err.Error() on a nil error, after the log line
        ELSE JSON(c1, StatusInternalServerError,
                  [success |-> FALSE,
                   error |-> [code |-> 500, status |-> "INTERNAL_SERVER_ERROR",
                              message |-> message, details |-> err.text],
                   data |-> Nil])

SuccessOld(c, data, now) ==
    JSON(c, StatusOK,
         [success |-> TRUE, data |-> data, meta |-> Str(Format(now))])

SuccessWithPaginationOld(c, data, meta) ==
    JSON(c, StatusOK, [success |-> TRUE, data |-> data, pagination |-> meta])

CreatedOld(c, data, now) ==
    JSON(c, StatusCreated,
         [success |-> TRUE, data |-> data, meta |-> Str(Format(now))])

DeletedOld(c, message, now) ==
    JSON(c, StatusOK,
         [success |-> TRUE,
          message |-> message \o " deleted successfully",
          meta |-> Str(Format(now))])

---------------------------------------------------------------------------
(* State machine.  A handler calls one helper on the context of a request; *)
(* upstream middleware may store values in the request's Keys (c.Set).     *)

NoStore == [k \in {} |-> Nil]

Init ==
    /\ keys = [r \in Requests |-> NoStore]
    /\ nwrites = [r \in Requests |-> 0]
    /\ stdlog = <<>>
    /\ call = [op |-> "none"]

\* c.Set(key, value) by the surrounding framework or middleware
Set(r, key, value) ==
    /\ keys' = [keys EXCEPT ![r] = [k \in DOMAIN @ \cup {key} |->
                                        IF k = key THEN value ELSE @[k]]]
    /\ UNCHANGED <<nwrites, stdlog, call>>

\* One helper call on request r: args describes the call, c2 is the context
\* the helper leaves behind.
Invoke(r, args, c2) ==
    /\ nwrites[r] < MaxWrites
    /\ Len(stdlog) + Len(c2.log) <= MaxLog
    /\ keys' = [keys EXCEPT ![r] = c2.Keys]
    /\ nwrites' = [nwrites EXCEPT ![r] = @ + Len(c2.writes)]
    /\ stdlog' = stdlog \o c2.log
    /\ call' = [req |-> r, keys |-> keys[r], before |-> nwrites[r],
                writes |-> c2.writes, panicked |-> c2.panicked] @@ args

Op(op, gen) == [op |-> op, gen |-> gen]

CallBadRequest ==
    \E r \in Requests, message \in Strings, details \in Strings :
        Invoke(r, Op("BadRequest", "new") @@
                  [message |-> message, details |-> details],
               BadRequest(Context(r), message, details))

CallAlreadyExists ==
    \E r \in Requests, resource \in Strings, err \in Errors :
        Invoke(r, Op("AlreadyExists", "new") @@
                  [resource |-> resource, err |-> err],
               AlreadyExists(Context(r), resource, err))

CallConflict ==
    \E r \in Requests, message \in Strings, err \in Errors :
        Invoke(r, Op("Conflict", "new") @@ [message |-> message, err |-> err],
               Conflict(Context(r), message, err))

CallNotFound ==
    \E r \in Requests, message \in Strings :
        Invoke(r, Op("NotFound", "new") @@ [message |-> message],
               NotFound(Context(r), message))

CallUnauthorized ==
    \E r \in Requests, message \in Strings :
        Invoke(r, Op("Unauthorized", "new") @@ [message |-> message],
               Unauthorized(Context(r), message))

CallInternalError ==
    \E r \in Requests, message \in Strings, err \in Errors :
        Invoke(r, Op("InternalError", "new") @@
                  [message |-> message, err |-> err],
               InternalError(Context(r), message, err))

CallSuccess ==
    \E r \in Requests, data \in Payloads :
        Invoke(r, Op("Success", "new") @@ [data |-> data],
               Success(Context(r), data))

CallSuccessWithPagination ==
    \E r \in Requests, data \in Payloads, paginationMeta \in Payloads :
        Invoke(r, Op("SuccessWithPagination", "new") @@
                  [data |-> data, pagination |-> paginationMeta],
               SuccessWithPagination(Context(r), data, paginationMeta))

CallCreated ==
    \E r \in Requests, data \in Payloads :
        Invoke(r, Op("Created", "new") @@ [data |-> data],
               Created(Context(r), data))

CallDeleted ==
    \E r \in Requests, message \in Strings :
        Invoke(r, Op("Deleted", "new") @@ [message |-> message],
               Deleted(Context(r), message))

CallForbidden ==
    \E r \in Requests, message \in Strings :
        Invoke(r, Op("Forbidden", "new") @@ [message |-> message],
               Forbidden(Context(r), message))

CallNoContent ==
    \E r \in Requests :
        Invoke(r, Op("NoContent", "new"), NoContent(Context(r)))

CallBadRequestGin ==
    \E r \in Requests, message \in Strings, details \in Strings :
        Invoke(r, Op("BadRequest", "gin") @@
                  [message |-> message, details |-> details],
               BadRequestGin(Context(r), message, details))

CallNotFoundGin ==
    \E r \in Requests, message \in Strings :
        Invoke(r, Op("NotFound", "gin") @@ [message |-> message],
               NotFoundGin(Context(r), message))

CallUnauthorizedGin ==
    \E r \in Requests, message \in Strings :
        Invoke(r, Op("Unauthorized", "gin") @@ [message |-> message],
               UnauthorizedGin(Context(r), message))

CallInternalErrorGin ==
    \E r \in Requests, message \in Strings, err \in Errors :
        Invoke(r, Op("InternalError", "gin") @@
                  [message |-> message, err |-> err],
               InternalErrorGin(Context(r), message, err))

CallSuccessGin ==
    \E r \in Requests, data \in Payloads :
        Invoke(r, Op("Success", "gin") @@ [data |-> data],
               SuccessGin(Context(r), data))

CallSuccessWithPaginationGin ==
    \E r \in Requests, data \in Payloads, paginationMeta \in Payloads :
        Invoke(r, Op("SuccessWithPagination", "gin") @@
                  [data |-> data, pagination |-> paginationMeta],
               SuccessWithPaginationGin(Context(r), data, paginationMeta))

CallCreatedGin ==
    \E r \in Requests, data \in Payloads :
        Invoke(r, Op("Created", "gin") @@ [data |-> data],
               CreatedGin(Context(r), data))

CallDeletedGin ==
    \E r \in Requests, message \in Strings :
        Invoke(r, Op("Deleted", "gin") @@ [message |-> message],
               DeletedGin(Context(r), message))

CallBadRequestOld ==
    \E r \in Requests, message \in Strings, details \in Strings :
        Invoke(r, Op("BadRequest", "old") @@
                  [message |-> message, details |-> details],
               BadRequestOld(Context(r), message, details))

CallNotFoundOld ==
    \E r \in Requests, message \in Strings :
        Invoke(r, Op("NotFound", "old") @@ [message |-> message],
               NotFoundOld(Context(r), message))

CallUnauthorizedOld ==
    \E r \in Requests, message \in Strings :
        Invoke(r, Op("Unauthorized", "old") @@ [message |-> message],
               UnauthorizedOld(Context(r), message))

CallInternalErrorOld ==
    \E r \in Requests, message \in Strings, err \in Errors :
        Invoke(r, Op("InternalError", "old") @@
                  [message |-> message, err |-> err],
               InternalErrorOld(Context(r), message, err))

CallSuccessOld ==
    \E r \in Requests, data \in Payloads, now \in Instants :
        Invoke(r, Op("Success", "old") @@ [data |-> data, now |-> now],
               SuccessOld(Context(r), data, now))

CallSuccessWithPaginationOld ==
    \E r \in Requests, data \in Payloads, meta \in Payloads :
        Invoke(r, Op("SuccessWithPagination", "old") @@
                  [data |-> data, pagination |-> meta],
               SuccessWithPaginationOld(Context(r), data, meta))

CallCreatedOld ==
    \E r \in Requests, data \in Payloads, now \in Instants :
        Invoke(r, Op("Created", "old") @@ [data |-> data, now |-> now],
               CreatedOld(Context(r), data, now))

CallDeletedOld ==
    \E r \in Requests, message \in Strings, now \in Instants :
        Invoke(r, Op("Deleted", "old") @@ [message |-> message, now |-> now],
               DeletedOld(Context(r), message, now))

CallSet ==
    \E r \in Requests, key \in KeyNames, value \in Stored : Set(r, key, value)

Next ==
    \/ CallSet
    \/ CallBadRequest
    \/ CallAlreadyExists
    \/ CallConflict
    \/ CallNotFound
    \/ CallUnauthorized
    \/ CallInternalError
    \/ CallSuccess
    \/ CallSuccessWithPagination
    \/ CallCreated
    \/ CallDeleted
    \/ CallForbidden
    \/ CallNoContent
    \/ CallBadRequestGin
    \/ CallNotFoundGin
    \/ CallUnauthorizedGin
    \/ CallInternalErrorGin
    \/ CallSuccessGin
    \/ CallSuccessWithPaginationGin
    \/ CallCreatedGin
    \/ CallDeletedGin
    \/ CallBadRequestOld
    \/ CallNotFoundOld
    \/ CallUnauthorizedOld
    \/ CallInternalErrorOld
    \/ CallSuccessOld
    \/ CallSuccessWithPaginationOld
    \/ CallCreatedOld
    \/ CallDeletedOld

Spec == Init /\ [][Next]_vars

---------------------------------------------------------------------------
(* Properties.  call describes the last helper call; call.writes are the   *)
(* writes it made, call.keys the request's Keys when it was made.          *)

Called == call.op # "none"
Wrote == Called /\ Len(call.writes) >= 1
Code == call.writes[1].code
Env == call.writes[1].obj
Has(obj, key) == key \in DOMAIN obj

ErrorOps == {"BadRequest", "Unauthorized", "Forbidden", "NotFound",
             "Conflict", "AlreadyExists", "InternalError"}
SuccessOps == {"Success", "Created", "SuccessWithPagination", "NoContent",
               "Deleted"}
ErrTakingOps == {"Conflict", "AlreadyExists", "InternalError"}

\* C1: BadRequest writes status 400 and an envelope whose error has code
\* 400, status "BAD_REQUEST", message = the message argument and details =
\* the details argument, for every message and details.
C1_BadRequest ==
    (Called /\ call.op = "BadRequest") =>
        /\ Len(call.writes) = 1
        /\ Code = 400
        /\ Has(Env, "error")
        /\ DOMAIN Env.error = {"code", "status", "message", "details"}
        /\ Env.error.code = 400
        /\ Env.error.status = "BAD_REQUEST"
        /\ Env.error.message = call.message
        /\ Env.error.details = call.details

C1_Witness ==
    /\ Called /\ call.op = "BadRequest" /\ call.gen = "new"
    /\ call.message = "User" /\ call.details = ""
    /\ Wrote /\ Env.error.message = "User" /\ Env.error.details = ""

\* C2: with a non-nil error, AlreadyExists(c, resource, err) writes status
\* 409 and exactly the writes Conflict(c, resource + " already exists", err)
\* makes on the same context.
C2_AlreadyExists ==
    (Called /\ call.op = "AlreadyExists" /\ call.err # Nil) =>
        /\ Len(call.writes) = 1
        /\ Code = 409
        /\ call.writes =
              Conflict([Keys |-> call.keys, writes |-> <<>>, log |-> <<>>,
                        panicked |-> FALSE],
                       call.resource \o " already exists", call.err).writes
        /\ Env.error.message = call.resource \o " already exists"

C2_Witness ==
    /\ Called /\ call.op = "AlreadyExists" /\ call.err # Nil
    /\ call.resource = "User"
    /\ Wrote /\ Env.error.message = "User already exists"
    /\ Has(call.keys, "meta")

C4_InternalError ==
    (Called /\ call.op = "InternalError" /\ call.err # Nil) =>
        /\ Len(call.writes) = 1
        /\ Code = 500
        /\ Has(Env, "data") /\ Env.data = Nil
        /\ Has(Env.error, "details")
        /\ Env.error.details = call.err.text

C4_Witness ==
    /\ Called /\ call.op = "InternalError" /\ call.gen = "new"
    /\ call.err = Err("duplicate key") /\ call.message = ""
    /\ Wrote /\ Env.error.details = "duplicate key"

\* C5: in every envelope written, success is true exactly when the status
\* is 2xx, and an error object is present exactly when success is false;
\* the success family writes success true, the error family success false.
C5_SuccessMatchesStatus ==
    Called =>
        /\ \A i \in 1..Len(call.writes) :
              LET w == call.writes[i]
              IN  /\ w.obj.success = (w.code >= 200 /\ w.code <= 299)
                  /\ Has(w.obj, "error") = (w.obj.success = FALSE)
                  /\ call.op \in SuccessOps => w.obj.success = TRUE
                  /\ call.op \in ErrorOps =>
                        /\ w.obj.success = FALSE
                        /\ w.code >= 400 /\ w.code <= 599
        /\ call.op \in SuccessOps \cup ErrorOps

C5_Witness ==
    /\ Called /\ call.op = "Forbidden" /\ Wrote
    /\ Env.success = FALSE /\ Code = 403 /\ Has(Env, "error")

\* The value a lookup of "meta" in the call's request storage yields
AmbientMeta == IF Has(call.keys, "meta") THEN call.keys["meta"] ELSE Nil

\* C6 as stated: the envelope's meta equals the value stored under "meta"
\* at the time of the call, and the envelope has no meta when nothing was
\* stored under that key.
C6_MetaAbsentWhenUnset ==
    Called =>
        \A i \in 1..Len(call.writes) :
            LET obj == call.writes[i].obj
            IN  IF Has(call.keys, "meta")
                THEN Has(obj, "meta") /\ obj.meta = call.keys["meta"]
                ELSE ~Has(obj, "meta")

\* C6 (amended): the two helpers that read the request storage always
\* write a meta field: the value stored under "meta" at the time of the
\* call, or null when nothing was stored.  The older helper never reads the
\* storage: Success, Created and Deleted write the formatted current time
\* as meta, its other operations write no meta field.
C6_AmbientMeta ==
    Called =>
        \A i \in 1..Len(call.writes) :
            LET obj == call.writes[i].obj
            IN  IF call.gen \in {"new", "gin"}
                THEN Has(obj, "meta") /\ obj.meta = AmbientMeta
                ELSE IF call.op \in {"Success", "Created", "Deleted"}
                     THEN Has(obj, "meta") /\ obj.meta = Str(Format(call.now))
                     ELSE ~Has(obj, "meta")

C6_Witness ==
    /\ Called /\ call.op = "Success" /\ call.gen = "new" /\ Wrote
    /\ Has(call.keys, "meta") /\ call.keys["meta"] = Str("req-1")
    /\ Env.meta = Str("req-1")

\* C7 as stated: every envelope of an operation other than InternalError
\* has exactly one of the fields data and error; InternalError has both,
\* with data null.
C7_ExactlyOneOfDataError ==
    Wrote =>
        IF call.op = "InternalError"
        THEN Has(Env, "data") /\ Has(Env, "error") /\ Env.data = Nil
        ELSE Has(Env, "data") # Has(Env, "error")

\* C7 (amended): every envelope of an operation other than InternalError
\* and Deleted has exactly one of the fields data and error; InternalError
\* has both, with data null; Deleted has neither (it carries message).
C7_DataErrorShape ==
    Wrote =>
        CASE call.op = "InternalError" ->
                Has(Env, "data") /\ Has(Env, "error") /\ Env.data = Nil
          [] call.op = "Deleted" ->
                ~Has(Env, "data") /\ ~Has(Env, "error") /\ Has(Env, "message")
          [] OTHER -> Has(Env, "data") # Has(Env, "error")

C7_Witness ==
    /\ Called /\ call.op = "NoContent" /\ Wrote
    /\ Has(Env, "data") /\ ~Has(Env, "error")

\* C8 as stated: each call of any operation makes exactly one write to the
\* transport of its request.
C8_ExactlyOneWrite ==
    Called =>
        /\ Len(call.writes) = 1
        /\ nwrites[call.req] = call.before + 1

NilErrorCall == Called /\ call.op \in ErrTakingOps /\ call.err = Nil

\* C8 (amended): each call makes exactly one write to the transport of its
\* request, AlreadyExists included, except that Conflict, AlreadyExists and
\* InternalError called with a nil error panic and make no write.
C8_OneWriteUnlessNilError ==
    Called =>
        IF NilErrorCall
        THEN /\ call.panicked
             /\ Len(call.writes) = 0
             /\ nwrites[call.req] = call.before
        ELSE /\ ~call.panicked
             /\ Len(call.writes) = 1
             /\ nwrites[call.req] = call.before + 1

C8_Witness ==
    /\ Called /\ call.op = "AlreadyExists" /\ call.err # Nil
    /\ call.before = 1 /\ Len(call.writes) = 1 /\ nwrites[call.req] = 2

ExpectedCode(op) ==
    CASE op = "BadRequest" -> 400
      [] op = "Unauthorized" -> 401
      [] op = "Forbidden" -> 403
      [] op = "NotFound" -> 404
      [] op \in {"Conflict", "AlreadyExists"} -> 409
      [] op = "InternalError" -> 500

ExpectedStatus(op) ==
    CASE op = "BadRequest" -> "BAD_REQUEST"
      [] op = "Unauthorized" -> "UNAUTHORIZED"
      [] op = "Forbidden" -> "FORBIDDEN"
      [] op = "NotFound" -> "NOT_FOUND"
      [] op \in {"Conflict", "AlreadyExists"} -> "CONFLICT"
      [] op = "InternalError" -> "INTERNAL_SERVER_ERROR"

\* C9: for every error-family operation error.code equals the status
\* written and error.status is the fixed name of that status (400, 401,
\* 403, 404, 409, 409, 500); Success writes 200 and Created 201 with data
\* equal to the caller's payload.
C9_StatusTable ==
    Wrote =>
        /\ call.op \in ErrorOps =>
              /\ Code = ExpectedCode(call.op)
              /\ Env.error.code = Code
              /\ Env.error.status = ExpectedStatus(call.op)
        /\ call.op = "Success" =>
              Code = 200 /\ Has(Env, "data") /\ Env.data = call.data
        /\ call.op = "Created" =>
              Code = 201 /\ Has(Env, "data") /\ Env.data = call.data

C9_Witness ==
    /\ Called /\ call.op = "Created" /\ call.gen = "new" /\ Wrote
    /\ call.data = Str("token") /\ Code = 201 /\ Env.data = Str("token")

\* The strings an envelope carries
AnyTexts(v) == IF v.kind = "string" THEN {v.val} ELSE {}
EnvTexts(obj) ==
    (IF Has(obj, "error")
       THEN {obj.error.message} \cup
            (IF Has(obj.error, "details") THEN {obj.error.details} ELSE {})
       ELSE {})
    \cup (IF Has(obj, "message") THEN {obj.message} ELSE {})
    \cup (IF Has(obj, "data") THEN AnyTexts(obj.data) ELSE {})
    \cup (IF Has(obj, "pagination") THEN AnyTexts(obj.pagination) ELSE {})
    \cup (IF Has(obj, "meta") THEN AnyTexts(obj.meta) ELSE {})

\* Texts of the error values callers pass; no other input carries them
ErrorTexts == {e.text : e \in Errors \ {Nil}}

\* C10: the error object of NotFound, Unauthorized and Forbidden has no
\* details field; an envelope carries the text of an error value only when
\* the operation is Conflict, AlreadyExists or InternalError and the text is
\* that of the error the caller passed; BadRequest's details is the
\* caller's details string.
C10_ErrorTextOnlyWhenSupplied ==
    Wrote =>
        /\ call.op \in {"NotFound", "Unauthorized", "Forbidden"} =>
              DOMAIN Env.error = {"code", "status", "message"}
        /\ call.op = "BadRequest" =>
              Has(Env.error, "details") /\ Env.error.details = call.details
        /\ EnvTexts(Env) \cap ErrorTexts # {} =>
              /\ call.op \in ErrTakingOps
              /\ EnvTexts(Env) \cap ErrorTexts = {call.err.text}

C10_Witness ==
    /\ Called /\ call.op = "NotFound" /\ call.gen = "new" /\ Wrote
    /\ call.message = "User" /\ ~Has(Env.error, "details")
    /\ Len(stdlog) = 1

\* C11: NoContent writes status 204 with an envelope in which success is
\* true and data is null, and which has no error, pagination or message
\* field.
C11_NoContent ==
    (Called /\ call.op = "NoContent") =>
        /\ Len(call.writes) = 1
        /\ Code = 204
        /\ Env.success = TRUE
        /\ Has(Env, "data") /\ Env.data = Nil
        /\ ~Has(Env, "error") /\ ~Has(Env, "pagination") /\ ~Has(Env, "message")

C11_Witness ==
    /\ Called /\ call.op = "NoContent" /\ Wrote /\ Code = 204
    /\ Has(call.keys, "meta") /\ DOMAIN Env = {"success", "data", "meta"}

\* C12: the status written by Deleted is 204, for every noun.
C12_DeletedWrites204 ==
    (Called /\ call.op = "Deleted") =>
        \A i \in 1..Len(call.writes) : call.writes[i].code = 204

\* A step in which a helper ran (a call leaves a trace in call, in the
\* write count or in the standard logger)
HelperStep == call' # call \/ nwrites' # nwrites \/ stdlog' # stdlog

\* The arguments of a call, without the instant time.Now() returned
CallArgs(cl) ==
    [f \in DOMAIN cl \ {"req", "keys", "before", "writes", "panicked", "now"}
        |-> cl[f]]
MetaOf(cl) == IF Has(cl.keys, "meta") THEN cl.keys["meta"] ELSE Nil
NowOf(cl) == IF Has(cl, "now") THEN cl.now ELSE 0

\* Two calls of the same operation with the same arguments on requests
\* with the same "meta"
SameInputs(a, b) ==
    /\ a.op = b.op /\ a.gen = b.gen
    /\ CallArgs(a) = CallArgs(b)
    /\ MetaOf(a) = MetaOf(b)

\* A call leaves the transports of the other requests alone
OthersUntouched ==
    \A q \in Requests \ {call'.req} : nwrites'[q] = nwrites[q]

\* C13 as stated: no operation writes to request storage or to another
\* request's state, and the writes of a call depend only on its
\* arguments and on the "meta" of its own request: a call that follows
\* another with the same operation, arguments and meta, on any request and
\* after any history, writes the same.
C13_Stateless ==
    [][/\ HelperStep => (keys' = keys /\ OthersUntouched)
       /\ (Called /\ Called' /\ SameInputs(call, call')) =>
              (call'.writes = call.writes /\ call'.panicked = call.panicked)
      ]_vars

\* C13 (amended): no operation writes to request storage or to another
\* request's state; the only process-wide effect is the line the older
\* InternalError appends to the standard logger, which no operation reads.  The writes of a call depend only on its arguments, on
\* the "meta" of its own request and, in the older helper, on the current
\* time: never on earlier calls or on another request.
C13_StatelessButClockAndLog ==
    [][/\ HelperStep => (keys' = keys /\ OthersUntouched)
       /\ stdlog' # stdlog =>
              (call'.op = "InternalError" /\ call'.gen = "old")
       /\ (Called /\ Called' /\ SameInputs(call, call')
             /\ NowOf(call) = NowOf(call')) =>
              (call'.writes = call.writes /\ call'.panicked = call.panicked)
      ]_vars

C13_Witness ==
    /\ Called /\ call.req = "r2" /\ call.gen = "new" /\ call.op = "Success"
    /\ ~Has(call.keys, "meta") /\ Has(keys["r1"], "meta")
    /\ nwrites["r1"] = 1 /\ Len(stdlog) = 1
    /\ Wrote /\ Env.meta = Nil

\* C14: when InternalError, Conflict or AlreadyExists is called with a nil
\* error the call panics while building the envelope and nothing is written
\* to the transport: the write count of the request stays what it was.
C14_NilErrorPanics ==
    (Called /\ call.op \in {"InternalError", "Conflict", "AlreadyExists"}
            /\ call.err = Nil) =>
        /\ call.panicked
        /\ call.writes = <<>>
        /\ nwrites[call.req] = call.before

C14_Witness ==
    /\ Called /\ call.op = "Conflict" /\ call.err = Nil /\ call.message = "User"
    /\ call.panicked /\ call.writes = <<>> /\ nwrites[call.req] = 0

\* The operations every generation of the helper has
SharedOps == {"BadRequest", "NotFound", "Unauthorized", "InternalError",
              "Success", "SuccessWithPagination", "Created", "Deleted"}
Gens == {"old", "gin", "new"}

\* The context the last call ran on
CallContext ==
    [Keys |-> call.keys, writes |-> <<>>, log |-> <<>>, panicked |-> FALSE]

\* The last call's arguments given to generation g of the same operation
Replay(g, now) ==
    LET c == CallContext
    IN  CASE call.op = "BadRequest" ->
               IF g = "old" THEN BadRequestOld(c, call.message, call.details)
               ELSE IF g = "gin" THEN BadRequestGin(c, call.message, call.details)
               ELSE BadRequest(c, call.message, call.details)
          [] call.op = "NotFound" ->
               IF g = "old" THEN NotFoundOld(c, call.message)
               ELSE IF g = "gin" THEN NotFoundGin(c, call.message)
               ELSE NotFound(c, call.message)
          [] call.op = "Unauthorized" ->
               IF g = "old" THEN UnauthorizedOld(c, call.message)
               ELSE IF g = "gin" THEN UnauthorizedGin(c, call.message)
               ELSE Unauthorized(c, call.message)
          [] call.op = "InternalError" ->
               IF g = "old" THEN InternalErrorOld(c, call.message, call.err)
               ELSE IF g = "gin" THEN InternalErrorGin(c, call.message, call.err)
               ELSE InternalError(c, call.message, call.err)
          [] call.op = "Success" ->
               IF g = "old" THEN SuccessOld(c, call.data, now)
               ELSE IF g = "gin" THEN SuccessGin(c, call.data)
               ELSE Success(c, call.data)
          [] call.op = "SuccessWithPagination" ->
               IF g = "old"
               THEN SuccessWithPaginationOld(c, call.data, call.pagination)
               ELSE IF g = "gin"
               THEN SuccessWithPaginationGin(c, call.data, call.pagination)
               ELSE SuccessWithPagination(c, call.data, call.pagination)
          [] call.op = "Created" ->
               IF g = "old" THEN CreatedOld(c, call.data, now)
               ELSE IF g = "gin" THEN CreatedGin(c, call.data)
               ELSE Created(c, call.data)
          [] call.op = "Deleted" ->
               IF g = "old" THEN DeletedOld(c, call.message, now)
               ELSE IF g = "gin" THEN DeletedGin(c, call.message)
               ELSE Deleted(c, call.message)

\* The writes of a call without the meta field of their envelopes
WithoutMeta(writes) ==
    [i \in 1..Len(writes) |->
        [code |-> writes[i].code,
         obj |-> [k \in DOMAIN writes[i].obj \ {"meta"} |-> writes[i].obj[k]]]]

\* C15: for every operation that all generations have and for every input,
\* every generation writes the same status code and the same success,
\* error, data, pagination and message fields as the call that was made;
\* the generations differ only in the meta field.
C15_GenerationsAgree ==
    (Called /\ call.op \in SharedOps) =>
        \A g \in Gens, now \in Instants :
            /\ WithoutMeta(Replay(g, now).writes) = WithoutMeta(call.writes)
            /\ Replay(g, now).panicked = call.panicked
            /\ \A i \in 1..Len(call.writes) :
                  DOMAIN call.writes[i].obj \subseteq
                      {"success", "error", "data", "pagination", "message",
                       "meta"}

C15_Witness ==
    /\ Called /\ call.op = "Deleted" /\ call.gen = "old" /\ Wrote
    /\ call.message = "User" /\ Has(call.keys, "meta")
    /\ Env.meta # Deleted(CallContext, "User").writes[1].obj.meta
    /\ WithoutMeta(call.writes) =
          WithoutMeta(DeletedGin(CallContext, "User").writes)

===========================================================================
